---- MODULE Spec2Model ----
(***************************************************************************)
(* Model of src/main.py: the credential lifecycle (ensure_credentials,     *)
(* get_credentials, save_credentials, the token refresh callback) and the  *)
(* incremental sync loop (monitor_weight, get_last_weight_timestamp,       *)
(* measures_to_weights, Weight.from_measure).                              *)
(*                                                                         *)
(* The relational store is two tables shared by every running instance:    *)
(* credentials (a list of pickled blobs, no key) and weight (rows keyed by  *)
(* created_at).  Statements outside a transaction are committed one by     *)
(* one, so save_credentials is two steps.  The remote measurement provider *)
(* is the environment: it holds a list of measurement groups, answers a    *)
(* fetch with the groups at or after startdate, and may rotate the token   *)
(* of a client during a call.                                              *)
(***************************************************************************)
EXTENDS Integers, Sequences, FiniteSets, TLC

\* ---------------------------------------------------------------- bounds
MaxTime   == 2   \* measurement timestamps are 1..MaxTime
MaxGroups == 2   \* measurement groups the remote ever holds
MaxTokens == 2   \* credentials the remote ever issues
RefreshSeconds == 1   \* conf.refresh_seconds, the configured period
NormMaxLen == 3   \* groups in one response given to measures_to_weights alone

Instances == {1, 2}                \* program instances sharing one store
Times     == 1 .. MaxTime
Elapsed   == 0 .. (RefreshSeconds + 1)  \* seconds one cycle may take
\* What monitor_weight imports as `insert`: the postgresql and the sqlite
\* dialect's insert (both have on_conflict_do_nothing), or the generic one.
InsertConstructs == {"dialect_insert", "generic_insert"}

\* Optional[x]: None is <<>>, a present value v is <<v>>.
None      == << >>
Some(v)   == << v >>
IsNone(o) == o = << >>
Get(o)    == o[1]

\* ------------------------------------------------ Arrow / datetime values
\* An Arrow wraps an instant; the TIMESTAMP column stores the bare instant.
Arrow(t)         == [timestamp |-> t]
ArrowDatetime(a) == a.timestamp
ArrowFromDatetime(d) == [timestamp |-> d]

\* ------------------------------------------------------ measurement groups
Measure(ty, v) == [type |-> ty, value |-> v]

MeasureLists ==
    { << Measure("HYDRATION", 5500) >>,
      << Measure("WEIGHT", 70500), Measure("FAT_MASS_WEIGHT", 15000) >> }

Groups == [created : {Arrow(t) : t \in Times}, measures : MeasureLists]

\* Variant: weight defaults to 0 instead of the -1 sentinel.
BlankWeightZero(created) ==
    [created_at |-> created, weight |-> 0, fat_mass |-> None,
     muscle_mass |-> None, hydration |-> None, bone_mass |-> None,
     fat_ratio |-> None, fat_free_mass |-> None]

\* Weight(...) as constructed at the top of from_measure.
BlankWeight(created) ==
    [created_at |-> created, weight |-> -1, fat_mass |-> None,
     muscle_mass |-> None, hydration |-> None, bone_mass |-> None,
     fat_ratio |-> None, fat_free_mass |-> None]

\* One turn of the loop over measure_group.measures.
ApplyMeasure(w, m) ==
    IF m.type = "WEIGHT" THEN [w EXCEPT !.weight = m.value]
    ELSE IF m.type = "FAT_MASS_WEIGHT" THEN [w EXCEPT !.fat_mass = Some(m.value)]
    ELSE IF m.type = "MUSCLE_MASS" THEN [w EXCEPT !.muscle_mass = Some(m.value)]
    ELSE IF m.type = "HYDRATION" THEN [w EXCEPT !.hydration = Some(m.value)]
    ELSE IF m.type = "BONE_MASS" THEN [w EXCEPT !.bone_mass = Some(m.value)]
    ELSE IF m.type = "FAT_RATIO" THEN [w EXCEPT !.fat_ratio = Some(m.value)]
    ELSE IF m.type = "FAT_FREE_MASS" THEN [w EXCEPT !.fat_free_mass = Some(m.value)]
    ELSE w

RECURSIVE FoldMeasures(_, _)
FoldMeasures(w, ms) ==
    IF ms = << >> THEN w
    ELSE FoldMeasures(ApplyMeasure(w, Head(ms)), Tail(ms))

\* Weight.from_measure; the missing-WEIGHT branch only logs.
from_measure(measure_group) ==
    FoldMeasures(BlankWeight(measure_group.created), measure_group.measures)

\* Variant: weights.setdefault(created_at, weight), the first group is kept.
RECURSIVE WeightsDictFirstWins(_, _)
WeightsDictFirstWins(d, grps) ==
    IF grps = << >> THEN d
    ELSE LET w == from_measure(Head(grps))
             k == w.created_at
             d2 == [x \in (DOMAIN d) \cup {k} |-> IF x \in DOMAIN d THEN d[x] ELSE w]
         IN  WeightsDictFirstWins(d2, Tail(grps))

\* The dict of measures_to_weights: created_at -> Weight, later groups overwrite.
RECURSIVE WeightsDict(_, _)
WeightsDict(d, grps) ==
    IF grps = << >> THEN d
    ELSE LET w == from_measure(Head(grps))
             k == w.created_at
             d2 == [x \in (DOMAIN d) \cup {k} |-> IF x = k THEN w ELSE d[x]]
         IN  WeightsDict(d2, Tail(grps))

\* Variant: sorted(..., reverse=True).
RECURSIVE SortedValuesDescending(_)
SortedValuesDescending(d) ==
    IF DOMAIN d = {} THEN << >>
    ELSE LET k == CHOOSE x \in DOMAIN d :
                     \A y \in DOMAIN d : x.timestamp >= y.timestamp
             rest == [x \in (DOMAIN d) \ {k} |-> d[x]]
         IN  << d[k] >> \o SortedValuesDescending(rest)

\* sorted(values, key=created_at): ascending.
RECURSIVE SortedValues(_)
SortedValues(d) ==
    IF DOMAIN d = {} THEN << >>
    ELSE LET k == CHOOSE x \in DOMAIN d :
                     \A y \in DOMAIN d : x.timestamp <= y.timestamp
             rest == [x \in (DOMAIN d) \ {k} |-> d[x]]
         IN  << d[k] >> \o SortedValues(rest)

measures_to_weights(measuregrps) ==
    SortedValues(WeightsDict([x \in {} |-> 0], measuregrps))

\* The list of dicts built for the insert statement.
InsertData(weights) ==
    [i \in 1 .. Len(weights) |->
        [created_at |-> ArrowDatetime(weights[i].created_at),
         weight |-> weights[i].weight,
         fat_mass |-> weights[i].fat_mass,
         muscle_mass |-> weights[i].muscle_mass,
         hydration |-> weights[i].hydration,
         bone_mass |-> weights[i].bone_mass,
         fat_ratio |-> weights[i].fat_ratio,
         fat_free_mass |-> weights[i].fat_free_mass]]

\* ------------------------------------------------------- weight repository
Keys(table) == {r.created_at : r \in table}

\* INSERT ... ON CONFLICT DO NOTHING: a row whose created_at is already in
\* the table (or earlier in the same statement) is skipped.
\* Variant: a plain INSERT of every row, no conflict clause.
InsertEveryRow(table, data) ==
    [table |-> table \cup {data[i] : i \in 1 .. Len(data)},
     rowcount |-> Len(data)]

\* Variant: ON CONFLICT DO UPDATE, the conflicting row is overwritten.
RECURSIVE OnConflictDoUpdate(_, _)
OnConflictDoUpdate(table, data) ==
    IF data = << >> THEN [table |-> table, rowcount |-> 0]
    ELSE LET row == Head(data)
             kept == {x \in table : x.created_at # row.created_at}
             rest == OnConflictDoUpdate(kept \cup {row}, Tail(data))
         IN  [table |-> rest.table, rowcount |-> rest.rowcount + 1]

RECURSIVE OnConflictDoNothing(_, _)
OnConflictDoNothing(table, data) ==
    IF data = << >> THEN [table |-> table, rowcount |-> 0]
    ELSE LET row == Head(data)
         IN  IF row.created_at \in Keys(table)
             THEN OnConflictDoNothing(table, Tail(data))
             ELSE LET r == OnConflictDoNothing(table \cup {row}, Tail(data))
                  IN  [table |-> r.table, rowcount |-> r.rowcount + 1]

\* Variant: order by created_at ascending.
get_first_weight_timestamp(table) ==
    IF table = {} THEN None
    ELSE LET first_weight == CHOOSE r \in table :
                                \A s \in table : r.created_at <= s.created_at
         IN  Some(ArrowFromDatetime(first_weight.created_at))

\* select ... order by created_at desc limit 1, .first()
get_last_weight_timestamp(table) ==
    IF table = {} THEN None
    ELSE LET last_weight == CHOOSE r \in table :
                               \A s \in table : s.created_at <= r.created_at
         IN  Some(ArrowFromDatetime(last_weight.created_at))

\* ------------------------------------------------------------- credentials
Credentials2(k) == [access_token |-> k, refresh_token |-> k]
serialize_credentials(creds) == << "pkl", creds.access_token, creds.refresh_token >>
deseralize_credentials(data) == [access_token |-> data[2], refresh_token |-> data[3]]

\* ------------------------------------------------------------- the remote
\* measure_get_meas(startdate=since): the groups created at or after since.
RemoteFetch(grps, since) ==
    IF IsNone(since) THEN grps
    ELSE SelectSeq(grps, LAMBDA g : g.created.timestamp >= Get(since).timestamp)

\* ------------------------------------------------------------------ state
VARIABLES
    credentials,            \* credentials table: list of pickled blobs
    weight,                 \* weight table: set of rows, key created_at
    remoteGrps,             \* the groups the remote provider holds
    issued,                 \* number of credentials the remote has issued
    insert,                 \* the insert construct conf.conn_string selects
    pc,                     \* per instance: position in main()
    error,                  \* per instance: the exception that ended it
    existing_creds,         \* ensure_credentials: result of get_credentials
    creds,                  \* the credential ensure_credentials returned
    api_creds,              \* the credential the WithingsApi client holds
    saving,                 \* save_credentials: its creds argument
    caller,                 \* save_credentials: who called it
    deleted,                \* save_credentials: rows its delete removed
    last_weight_timestamp,  \* monitor_weight local
    measures,               \* monitor_weight local: the raw response
    weights,                \* monitor_weight local: the normalized batch
    rowcount,               \* results.rowcount of the last insert
    insert_error,           \* "Failed to write weight to database" was logged
    rotated,                \* the credential issued during the current call
    validation,             \* outcome of the validation call
    handshake_invoked,      \* the authorization-code handshake was started
    observed                \* what the last get_credentials saw

vars == << credentials, weight, remoteGrps, issued, insert, pc, error,
           existing_creds, creds, api_creds, saving, caller, deleted,
           last_weight_timestamp, measures, weights, rowcount, insert_error,
           rotated, validation, handshake_invoked, observed >>

shared == << credentials, weight, remoteGrps, issued, insert >>
ensureLocals == << existing_creds, validation, handshake_invoked, observed >>
saveLocals == << saving, caller, deleted >>
loopLocals == << last_weight_timestamp, measures, weights, rowcount, insert_error >>

Rows(table) == {table[i] : i \in 1 .. Len(table)}

InitCommon ==
    /\ credentials \in {<< >>, << serialize_credentials(Credentials2(1)) >>}
    /\ issued = Len(credentials)
    /\ weight = {}
    /\ remoteGrps = << >>
    /\ insert \in InsertConstructs
    /\ error = [p \in Instances |-> ""]
    /\ existing_creds = [p \in Instances |-> None]
    /\ creds = [p \in Instances |-> None]
    /\ api_creds = [p \in Instances |-> None]
    /\ saving = [p \in Instances |-> None]
    /\ caller = [p \in Instances |-> ""]
    /\ deleted = [p \in Instances |-> 0]
    /\ last_weight_timestamp = [p \in Instances |-> None]
    /\ measures = [p \in Instances |-> << >>]
    /\ weights = [p \in Instances |-> << >>]
    /\ rowcount = [p \in Instances |-> None]
    /\ insert_error = [p \in Instances |-> FALSE]
    /\ rotated = [p \in Instances |-> None]
    /\ validation = [p \in Instances |-> "none"]
    /\ handshake_invoked = [p \in Instances |-> FALSE]
    /\ observed = [p \in Instances |-> [rows |-> -1, during_replace |-> FALSE]]

\* One instance runs (the deployment the program is written for).
Init ==
    /\ InitCommon
    /\ pc = [p \in Instances |-> IF p = 1 THEN "ec_get" ELSE "off"]

\* Several instances run against the same store.
InitMulti ==
    /\ InitCommon
    /\ pc = [p \in Instances |-> "ec_get"]

\* An exception nobody catches ends the instance.
Raise(p, exc) ==
    /\ pc' = [pc EXCEPT ![p] = "exit"]
    /\ error' = [error EXCEPT ![p] = exc]

Goto(p, label) ==
    /\ pc' = [pc EXCEPT ![p] = label]
    /\ UNCHANGED error

\* ------------------------------------------------------ ensure_credentials
\* Some other instance is between the delete and the insert of a replace
\* that started with a credential stored.
ReplaceInProgress(p) ==
    \E q \in Instances \ {p} : pc[q] = "save_insert" /\ deleted[q] > 0

\* get_credentials: select with no ORDER BY, .first().
get_credentials(p) ==
    /\ pc[p] = "ec_get"
    /\ \/ /\ Raise(p, "SQLAlchemyError")
          /\ UNCHANGED << existing_creds, observed >>
       \/ /\ observed' = [observed EXCEPT ![p] =
                 [rows |-> Len(credentials), during_replace |-> ReplaceInProgress(p)]]
          /\ IF credentials = << >>
             THEN /\ existing_creds' = [existing_creds EXCEPT ![p] = None]
                  /\ Goto(p, "ec_handshake")
             ELSE /\ \E i \in 1 .. Len(credentials) :
                        existing_creds' = [existing_creds EXCEPT ![p] =
                            Some(deseralize_credentials(credentials[i]))]
                  /\ Goto(p, "ec_validate")
    /\ UNCHANGED << shared, creds, api_creds, saveLocals, loopLocals, rotated,
                    validation, handshake_invoked >>

\* The validation call WithingsApi(existing_creds).measure_get_meas(): the
\* client is built without a refresh callback, so a token the provider rotates
\* during the call lives only in that client.
ValidationRotation(p) ==
    \E rot \in BOOLEAN :
       /\ rot => issued < MaxTokens
       /\ issued' = IF rot THEN issued + 1 ELSE issued
       /\ rotated' = [rotated EXCEPT ![p] =
             IF rot THEN Some(Credentials2(issued + 1)) ELSE None]

\* The call succeeds: return existing_creds; main passes it to monitor_weight.
ValidationOk(p) ==
    /\ validation' = [validation EXCEPT ![p] = "ok"]
    /\ creds' = [creds EXCEPT ![p] = existing_creds[p]]
    /\ api_creds' = [api_creds EXCEPT ![p] = existing_creds[p]]
    /\ Goto(p, "mw_start")

\* except AuthFailedException: log and fall through to the handshake.
ValidationAuthFailed(p) ==
    /\ validation' = [validation EXCEPT ![p] = "auth_failed"]
    /\ Goto(p, "ec_handshake")
    /\ UNCHANGED << creds, api_creds >>

\* Any other exception is not caught.
ValidationOtherError(p) ==
    /\ validation' = [validation EXCEPT ![p] = "other_error"]
    /\ Raise(p, "RemoteServiceError")
    /\ UNCHANGED << creds, api_creds >>

ValidationFrame ==
    UNCHANGED << credentials, weight, remoteGrps, insert, existing_creds,
                 saveLocals, loopLocals, handshake_invoked, observed >>

\* Variant: the success branch lacks its return and falls through.
ensure_credentials_validate_no_return(p) ==
    /\ pc[p] = "ec_validate"
    /\ ValidationRotation(p)
    /\ \/ /\ validation' = [validation EXCEPT ![p] = "ok"]
          /\ Goto(p, "ec_handshake")
          /\ UNCHANGED << creds, api_creds >>
       \/ ValidationAuthFailed(p)
       \/ ValidationOtherError(p)
    /\ ValidationFrame

\* Variant: a bare except, every failure leads to the handshake.
ensure_credentials_validate_bare_except(p) ==
    /\ pc[p] = "ec_validate"
    /\ ValidationRotation(p)
    /\ \/ ValidationOk(p)
       \/ ValidationAuthFailed(p)
       \/ /\ validation' = [validation EXCEPT ![p] = "other_error"]
          /\ Goto(p, "ec_handshake")
          /\ UNCHANGED << creds, api_creds >>
    /\ ValidationFrame

ensure_credentials_validate(p) ==
    /\ pc[p] = "ec_validate"
    /\ ValidationRotation(p)
    /\ \/ ValidationOk(p)
       \/ ValidationAuthFailed(p)
       \/ ValidationOtherError(p)
    /\ ValidationFrame

\* The authorization-code handshake: get_authorize_url, input, the code
\* exchange auth.get_credentials(code), then save_credentials.
ensure_credentials_handshake(p) ==
    /\ pc[p] = "ec_handshake"
    /\ handshake_invoked' = [handshake_invoked EXCEPT ![p] = TRUE]
    /\ rotated' = [rotated EXCEPT ![p] = None]
    /\ \/ /\ Raise(p, "AuthError")
          /\ UNCHANGED << issued, saving, caller >>
       \/ /\ issued < MaxTokens
          /\ issued' = issued + 1
          /\ saving' = [saving EXCEPT ![p] = Some(Credentials2(issued + 1))]
          /\ caller' = [caller EXCEPT ![p] = "ensure_credentials"]
          /\ Goto(p, "save_delete")
    /\ UNCHANGED << credentials, weight, remoteGrps, insert, existing_creds,
                    creds, api_creds, deleted, loopLocals, validation, observed >>

\* -------------------------------------------------------- save_credentials
\* Variant: save_credentials without its delete statement.
save_credentials_no_delete(p) ==
    /\ pc[p] = "save_delete"
    /\ \/ /\ Raise(p, "SQLAlchemyError")
          /\ UNCHANGED << credentials, deleted >>
       \/ /\ deleted' = [deleted EXCEPT ![p] = 0]
          /\ Goto(p, "save_insert")
          /\ UNCHANGED credentials
    /\ UNCHANGED << weight, remoteGrps, issued, insert, ensureLocals, creds,
                    api_creds, saving, caller, loopLocals, rotated >>

\* conn.execute(credentials.delete()): committed on its own.
save_credentials_delete(p) ==
    /\ pc[p] = "save_delete"
    /\ \/ /\ Raise(p, "SQLAlchemyError")
          /\ UNCHANGED << credentials, deleted >>
       \/ /\ credentials' = << >>
          /\ deleted' = [deleted EXCEPT ![p] = Len(credentials)]
          /\ Goto(p, "save_insert")
    /\ UNCHANGED << weight, remoteGrps, issued, insert, ensureLocals, creds,
                    api_creds, saving, caller, loopLocals, rotated >>

\* conn.execute(credentials.insert().values(...)): committed on its own; then
\* control returns to ensure_credentials (which returns the credential to
\* main, which enters monitor_weight) or to the client's call.
save_credentials_insert(p) ==
    /\ pc[p] = "save_insert"
    /\ \/ /\ Raise(p, "SQLAlchemyError")
          /\ UNCHANGED << credentials, creds, api_creds >>
       \/ /\ credentials' = Append(credentials, serialize_credentials(Get(saving[p])))
          /\ IF caller[p] = "ensure_credentials"
             THEN /\ creds' = [creds EXCEPT ![p] = saving[p]]
                  /\ api_creds' = [api_creds EXCEPT ![p] = saving[p]]
                  /\ Goto(p, "mw_start")
             ELSE /\ Goto(p, "mw_request")
                  /\ UNCHANGED << creds, api_creds >>
    /\ UNCHANGED << weight, remoteGrps, issued, insert, ensureLocals,
                    saveLocals, loopLocals, rotated >>

\* ---------------------------------------------------------- monitor_weight
\* Start of a cycle: engine.connect() and get_last_weight_timestamp, neither
\* inside a try.
monitor_weight_checkpoint(p) ==
    /\ pc[p] = "mw_start"
    /\ \/ /\ Raise(p, "SQLAlchemyError")
          /\ UNCHANGED last_weight_timestamp
       \/ /\ last_weight_timestamp' = [last_weight_timestamp EXCEPT ![p] =
                 get_last_weight_timestamp(weight)]
          /\ Goto(p, "mw_fetch")
    /\ UNCHANGED << shared, ensureLocals, creds, api_creds, saveLocals, measures,
                    weights, rowcount, insert_error, rotated >>

\* withings.measure_get_meas, first half: the client finds its token still
\* valid, or expired; an expired token is refreshed and refresh_cb is called
\* with the new credential before the request is sent.
monitor_weight_token(p) ==
    /\ pc[p] = "mw_fetch"
    /\ \/ /\ rotated' = [rotated EXCEPT ![p] = None]
          /\ Goto(p, "mw_request")
          /\ UNCHANGED << issued, api_creds, saving, caller >>
       \/ /\ issued < MaxTokens
          /\ issued' = issued + 1
          /\ rotated' = [rotated EXCEPT ![p] = Some(Credentials2(issued + 1))]
          /\ api_creds' = [api_creds EXCEPT ![p] = Some(Credentials2(issued + 1))]
          /\ saving' = [saving EXCEPT ![p] = Some(Credentials2(issued + 1))]
          /\ caller' = [caller EXCEPT ![p] = "refresh_callback"]
          /\ Goto(p, "save_delete")
       \/ /\ rotated' = [rotated EXCEPT ![p] = None]
          /\ Raise(p, "AuthFailedException")
          /\ UNCHANGED << issued, api_creds, saving, caller >>
    /\ UNCHANGED << credentials, weight, remoteGrps, insert, ensureLocals,
                    creds, deleted, loopLocals >>

\* withings.measure_get_meas, second half, and measures_to_weights.  Not
\* inside a try.
monitor_weight_request(p) ==
    /\ pc[p] = "mw_request"
    /\ \/ /\ measures' = [measures EXCEPT ![p] =
                 RemoteFetch(remoteGrps, last_weight_timestamp[p])]
          /\ weights' = [weights EXCEPT ![p] = measures_to_weights(measures'[p])]
          /\ Goto(p, "mw_insert")
       \/ /\ Raise(p, "AuthFailedException")
          /\ UNCHANGED << measures, weights >>
       \/ /\ Raise(p, "RemoteServiceError")
          /\ UNCHANGED << measures, weights >>
    /\ UNCHANGED << shared, ensureLocals, creds, api_creds, saveLocals,
                    last_weight_timestamp, rowcount, insert_error, rotated >>

\* Variant: rows are inserted by one statement each, and the rows written
\* before the failing one are committed when the with block ends.
monitor_weight_insert_row_by_row(p) ==
    /\ pc[p] = "mw_insert"
    /\ \/ /\ insert = "generic_insert"
          /\ Raise(p, "AttributeError")
          /\ UNCHANGED << weight, rowcount, insert_error >>
       \/ /\ insert = "dialect_insert"
          /\ LET results == OnConflictDoNothing(weight, InsertData(weights[p]))
             IN  /\ weight' = results.table
                 /\ rowcount' = [rowcount EXCEPT ![p] = Some(results.rowcount)]
          /\ insert_error' = [insert_error EXCEPT ![p] = FALSE]
          /\ Goto(p, "mw_sleep")
       \/ /\ insert = "dialect_insert"
          /\ \E n \in 0 .. Len(weights[p]) :
                weight' = OnConflictDoNothing(weight,
                              SubSeq(InsertData(weights[p]), 1, n)).table
          /\ insert_error' = [insert_error EXCEPT ![p] = TRUE]
          /\ rowcount' = [rowcount EXCEPT ![p] = None]
          /\ Goto(p, "mw_sleep")
    /\ UNCHANGED << credentials, remoteGrps, issued, insert, ensureLocals,
                    creds, api_creds, saveLocals, last_weight_timestamp,
                    measures, weights, rotated >>

\* with conn.begin(): try: insert ... on_conflict_do_nothing() except
\* SQLAlchemyError.  The generic sqlalchemy insert has no
\* on_conflict_do_nothing, and the AttributeError is not caught.
monitor_weight_insert(p) ==
    /\ pc[p] = "mw_insert"
    /\ \/ /\ insert = "generic_insert"
          /\ Raise(p, "AttributeError")
          /\ UNCHANGED << weight, rowcount, insert_error >>
       \/ /\ insert = "dialect_insert"
          /\ LET results == OnConflictDoNothing(weight, InsertData(weights[p]))
             IN  /\ weight' = results.table
                 /\ rowcount' = [rowcount EXCEPT ![p] = Some(results.rowcount)]
          /\ insert_error' = [insert_error EXCEPT ![p] = FALSE]
          /\ Goto(p, "mw_sleep")
       \/ /\ insert = "dialect_insert"
          /\ insert_error' = [insert_error EXCEPT ![p] = TRUE]
          /\ rowcount' = [rowcount EXCEPT ![p] = None]
          /\ Goto(p, "mw_sleep")
          /\ UNCHANGED weight
    /\ UNCHANGED << credentials, remoteGrps, issued, insert, ensureLocals,
                    creds, api_creds, saveLocals, last_weight_timestamp,
                    measures, weights, rotated >>

\* sleep(conf.refresh_seconds - elapsed): time.sleep raises ValueError for a
\* negative argument.
monitor_weight_sleep(p) ==
    /\ pc[p] = "mw_sleep"
    /\ \E elapsed \in Elapsed :
          LET sleep_for == RefreshSeconds - elapsed
          IN  IF sleep_for < 0 THEN Raise(p, "ValueError") ELSE Goto(p, "mw_start")
    /\ UNCHANGED << shared, ensureLocals, creds, api_creds, saveLocals,
                    loopLocals, rotated >>

\* ---------------------------------------------------------- the environment
\* A new measurement group appears at the provider.
RemoteNewGroup ==
    /\ Len(remoteGrps) < MaxGroups
    /\ \E g \in Groups : remoteGrps' = Append(remoteGrps, g)
    /\ UNCHANGED << credentials, weight, issued, insert, pc, error,
                    ensureLocals, creds, api_creds, saveLocals, loopLocals,
                    rotated >>

Step(p) ==
    \/ get_credentials(p)
    \/ ensure_credentials_validate(p)
    \/ ensure_credentials_handshake(p)
    \/ save_credentials_delete(p)
    \/ save_credentials_insert(p)
    \/ monitor_weight_checkpoint(p)
    \/ monitor_weight_token(p)
    \/ monitor_weight_request(p)
    \/ monitor_weight_insert(p)
    \/ monitor_weight_sleep(p)

Next == (\E p \in Instances : Step(p)) \/ RemoteNewGroup

Spec == Init /\ [][Next]_vars

\* Several instances against one store, the provider holding no new groups.
NextMulti == \E p \in Instances : Step(p)

SpecMulti == InitMulti /\ [][NextMulti]_vars

\* ------------------------------------------- measures_to_weights on its own
\* Responses of any shape: empty groups, groups without WEIGHT, a weight of
\* 0, a measure type repeated in a group, a type Weight has no field for.
NormMeasureLists ==
    MeasureLists \cup
    { << >>,
      << Measure("WEIGHT", 70000) >>,
      << Measure("WEIGHT", 0), Measure("HYDRATION", 6000) >>,
      << Measure("WEIGHT", 70000), Measure("HEIGHT", 170), Measure("WEIGHT", 71000) >> }

NormGroups == [created : {Arrow(t) : t \in Times}, measures : NormMeasureLists]

NormInputs == UNION {[1 .. n -> NormGroups] : n \in 0 .. NormMaxLen}

\* Instance 1 holds a response and is about to call measures_to_weights.
InitNorm ==
    /\ credentials = << >>
    /\ issued = 0
    /\ weight = {}
    /\ remoteGrps = << >>
    /\ insert = "dialect_insert"
    /\ pc = [p \in Instances |-> IF p = 1 THEN "normalize" ELSE "off"]
    /\ error = [p \in Instances |-> ""]
    /\ existing_creds = [p \in Instances |-> None]
    /\ creds = [p \in Instances |-> None]
    /\ api_creds = [p \in Instances |-> None]
    /\ saving = [p \in Instances |-> None]
    /\ caller = [p \in Instances |-> ""]
    /\ deleted = [p \in Instances |-> 0]
    /\ last_weight_timestamp = [p \in Instances |-> None]
    /\ \E response \in NormInputs :
          measures = [p \in Instances |-> IF p = 1 THEN response ELSE << >>]
    /\ weights = [p \in Instances |-> << >>]
    /\ rowcount = [p \in Instances |-> None]
    /\ insert_error = [p \in Instances |-> FALSE]
    /\ rotated = [p \in Instances |-> None]
    /\ validation = [p \in Instances |-> "none"]
    /\ handshake_invoked = [p \in Instances |-> FALSE]
    /\ observed = [p \in Instances |-> [rows |-> -1, during_replace |-> FALSE]]

\* weights = measures_to_weights(measures)
normalize_response(p) ==
    /\ pc[p] = "normalize"
    /\ weights' = [weights EXCEPT ![p] = measures_to_weights(measures[p])]
    /\ Goto(p, "normalized")
    /\ UNCHANGED << shared, ensureLocals, creds, api_creds, saveLocals,
                    last_weight_timestamp, measures, rowcount, insert_error,
                    rotated >>

NextNorm == \E p \in Instances : normalize_response(p)

SpecNorm == InitNorm /\ [][NextNorm]_vars

\* ==================================================================== claims
Checkpoint(table) ==
    IF table = {} THEN None
    ELSE Some(Arrow(CHOOSE t \in Keys(table) : \A u \in Keys(table) : u <= t))

CheckpointLeq(a, b) ==
    \/ a = None
    \/ b # None /\ Get(a).timestamp <= Get(b).timestamp

FetchedKeys(p) == {measures[p][i].created.timestamp : i \in 1 .. Len(measures[p])}

\* Rows a batch may carry: one per group of the universe.
BatchRows == {InsertData(<< from_measure(g) >>)[1] : g \in Groups}
Batches == {<< >>} \cup {<< a >> : a \in BatchRows}
               \cup {<< a, b >> : a, b \in BatchRows}

\* C1 (idempotent insert): for every batch and every table a cycle is about
\* to insert into, inserting the batch a second time right after the first
\* leaves the table as the first insert left it and reports 0 rows; and after
\* a successful insert of a cycle, inserting the cycle's batch again changes
\* nothing and reports 0.
C1_IdempotentInsert ==
    /\ \A p \in Instances : pc[p] = "mw_insert" =>
          \A B \in Batches \cup {InsertData(weights[p])} :
             LET once == OnConflictDoNothing(weight, B)
                 twice == OnConflictDoNothing(once.table, B)
             IN  twice.table = once.table /\ twice.rowcount = 0
    /\ \A p \in Instances :
          pc[p] = "mw_sleep" /\ rowcount[p] # None =>
             OnConflictDoNothing(weight, InsertData(weights[p]))
                = [table |-> weight, rowcount |-> 0]

\* A cycle has just inserted a two-row batch; inserting it again reports 0.
C1_Witness ==
    \E p \in Instances :
       /\ pc[p] = "mw_sleep" /\ rowcount[p] = Some(2)
       /\ OnConflictDoNothing(weight, InsertData(weights[p])).rowcount = 0

\* C2 (checkpoint monotonicity): no step removes or changes a stored row, no
\* step lowers the checkpoint, no created_at is ever stored twice, and the
\* insert of a cycle whose response holds no new timestamp leaves the table
\* as it was.
C2_CheckpointMonotone ==
    /\ [](\A r, s \in weight : r.created_at = s.created_at => r = s)
    /\ [][ /\ weight \subseteq weight'
           /\ CheckpointLeq(get_last_weight_timestamp(weight),
                            get_last_weight_timestamp(weight'))
           /\ \A p \in Instances :
                 (pc[p] = "mw_insert" /\ pc'[p] = "mw_sleep"
                    /\ FetchedKeys(p) \subseteq Keys(weight)) => weight' = weight
         ]_vars

\* A cycle fetched a stored timestamp whose remote content differs from the
\* stored row, and inserted nothing.
C2_Witness ==
    \E p \in Instances :
       /\ pc[p] = "mw_sleep" /\ rowcount[p] = Some(0)
       /\ Len(weights[p]) > 0
       /\ \E i \in 1 .. Len(weights[p]) : InsertData(weights[p])[i] \notin weight

\* C3 (incremental sync result): the fetch is answered for since = the
\* checkpoint of the table (absent when it is empty); a successful insert
\* keeps every row, adds exactly one row per fetched timestamp not yet
\* stored, reports their number, and the checkpoint read back is the largest
\* created_at stored.
C3_IncrementalSync ==
    [][ \A p \in Instances :
          /\ (pc[p] = "mw_start" /\ pc'[p] = "mw_fetch") =>
                last_weight_timestamp'[p] = Checkpoint(weight)
          /\ (pc[p] = "mw_request" /\ pc'[p] = "mw_insert") =>
                /\ last_weight_timestamp[p] = Checkpoint(weight)
                /\ measures'[p] = RemoteFetch(remoteGrps, Checkpoint(weight))
          /\ (pc[p] = "mw_insert" /\ pc'[p] = "mw_sleep" /\ ~insert_error'[p]) =>
                LET new == FetchedKeys(p) \ Keys(weight)
                IN  /\ weight \subseteq weight'
                    /\ Keys(weight' \ weight) = new
                    /\ Cardinality(weight' \ weight) = Cardinality(new)
                    /\ rowcount'[p] = Some(Cardinality(new))
                    /\ get_last_weight_timestamp(weight') = Checkpoint(weight')
                    /\ new # {} =>
                          CheckpointLeq(last_weight_timestamp[p], Checkpoint(weight'))
      ]_vars

\* The second cycle of the scenario: two timestamps fetched, one of them
\* already stored, exactly one row inserted.
C3_Witness ==
    \E p \in Instances :
       /\ pc[p] = "mw_sleep" /\ rowcount[p] = Some(1)
       /\ Cardinality(FetchedKeys(p)) = 2
       /\ Cardinality(weight) = 2
       /\ last_weight_timestamp[p] # None

\* C4 (credential replace atomicity): a get_credentials that runs while
\* another instance is between the two statements of a replace sees exactly
\* one credential row.
C4_ReplaceAtomic ==
    \A p \in Instances : observed[p].during_replace => observed[p].rows = 1

\* C5 (single credential row): the credentials table never holds more than
\* one row.
C5_SingleCredentialRow == Len(credentials) <= 1

\* C6 (refresh is never lost): once a call during which the provider rotated
\* the token has returned, the rotated credential is in the credentials table.
C6_RefreshPersisted ==
    \A p \in Instances :
       (rotated[p] # None /\ pc[p] \in {"mw_start", "mw_insert", "mw_sleep"}) =>
          serialize_credentials(Get(rotated[p])) \in Rows(credentials)

\* C7 (refresh before handshake): a stored credential that fails validation
\* with an authorization error never leads to the interactive handshake.
C7_RefreshBeforeHandshake ==
    \A p \in Instances : validation[p] = "auth_failed" => ~handshake_invoked[p]

\* C8 (valid credential is left alone): when the validation call succeeds,
\* ensure_credentials returns the credential it loaded, the handshake is not
\* started, and the step leaves the credentials table as it was, the loaded
\* credential still in it.
C8_ValidCredentialLeftAlone ==
    /\ [](\A p \in Instances : validation[p] = "ok" =>
             /\ existing_creds[p] # None
             /\ creds[p] = existing_creds[p]
             /\ ~handshake_invoked[p])
    /\ [][ \A p \in Instances :
             (pc[p] = "ec_validate" /\ validation'[p] = "ok") =>
                /\ pc'[p] = "mw_start"
                /\ credentials' = credentials
                /\ serialize_credentials(Get(creds'[p])) \in Rows(credentials')
         ]_vars

\* ensure_credentials has returned the stored credential after a successful
\* validation.
C8_Witness ==
    \E p \in Instances :
       /\ validation[p] = "ok" /\ pc[p] = "mw_start"
       /\ creds[p] # None /\ last_weight_timestamp[p] = None /\ measures[p] = << >>
       /\ rowcount[p] = None /\ ~insert_error[p]

\* C9 (only authorization errors lead to re-authorization): after a
\* validation call that failed with another error the instance has ended with
\* that error, the handshake was not started, and the credentials table holds
\* the stored credential and nothing else.
C9_OtherErrorIsFatal ==
    \A p \in Instances : validation[p] = "other_error" =>
       /\ pc[p] = "exit" /\ error[p] = "RemoteServiceError"
       /\ ~handshake_invoked[p]
       /\ creds[p] = None
       /\ credentials = << serialize_credentials(Get(existing_creds[p])) >>

\* The validation call has failed with a network or server error.
C9_Witness ==
    \E p \in Instances : validation[p] = "other_error" /\ pc[p] = "exit"

\* C10 (insert failure ends the cycle, not the process): a failed insert is
\* caught and leaves the table as it was, the loop goes on to the sleep, from
\* the sleep to a next cycle, and that cycle reads the checkpoint the failed
\* one read.
C10_InsertFailureEndsCycle ==
    [][ \A p \in Instances :
          /\ (pc[p] = "mw_insert" /\ insert_error'[p]) =>
                pc'[p] = "mw_sleep" /\ weight' = weight
          /\ (pc[p] = "mw_sleep" /\ insert_error[p]) =>
                pc'[p] \in {"mw_sleep", "mw_start"}
          /\ (pc[p] = "mw_start" /\ insert_error[p] /\ pc'[p] = "mw_fetch") =>
                last_weight_timestamp'[p] = last_weight_timestamp[p]
      ]_vars


\* An instance that is inside the loop of monitor_weight, or was when it ended.
InLoop(p) == creds[p] # None

\* C11 (a StorageError never crashes the process): no instance that has
\* entered the sync loop ends with a storage error.
C11_StorageErrorNeverFatal ==
    \A p \in Instances :
       InLoop(p) => ~(pc[p] = "exit" /\ error[p] = "SQLAlchemyError")

\* C12 (remote failure ends the cycle, not the process): no instance that has
\* entered the sync loop ends with a non-authorization remote error.
C12_RemoteErrorNeverFatal ==
    \A p \in Instances :
       InLoop(p) => ~(pc[p] = "exit" /\ error[p] = "RemoteServiceError")

\* C13 (authorization failure inside the loop is recovered): no instance
\* ends with an authorization failure of a fetch call.
C13_AuthFailureRecovered ==
    \A p \in Instances : ~(pc[p] = "exit" /\ error[p] = "AuthFailedException")

\* C14 (non-negative sleep): the loop never requests a negative sleep, so no
\* instance ends with the ValueError sleep raises for one.
C14_NonNegativeSleep ==
    \A p \in Instances : ~(pc[p] = "exit" /\ error[p] = "ValueError")


\* The timestamps the remote reports at or after the checkpoint of the table.
ReportedSinceCheckpoint ==
    {g.created.timestamp : g \in Rows(RemoteFetch(remoteGrps, Checkpoint(weight)))}

\* C15 (no data loss under transient failures): a transient storage or remote
\* failure never ends the loop, so it never leaves the instance stopped while
\* a group the remote reports at or after the checkpoint is missing from the
\* weight table (once stopped, no later cycle can persist it).
C15_NoDataLoss ==
    \A p \in Instances :
       (InLoop(p) /\ pc[p] = "exit"
          /\ error[p] \in {"SQLAlchemyError", "RemoteServiceError"})
       => ReportedSinceCheckpoint \subseteq Keys(weight)


\* ---- the normalizer
RecordTypes == {"WEIGHT", "FAT_MASS_WEIGHT", "MUSCLE_MASS", "HYDRATION",
                "BONE_MASS", "FAT_RATIO", "FAT_FREE_MASS"}

\* The value a record holds for a measure type.
FieldValue(w, ty) ==
    CASE ty = "WEIGHT" -> Some(w.weight)
      [] ty = "FAT_MASS_WEIGHT" -> w.fat_mass
      [] ty = "MUSCLE_MASS" -> w.muscle_mass
      [] ty = "HYDRATION" -> w.hydration
      [] ty = "BONE_MASS" -> w.bone_mass
      [] ty = "FAT_RATIO" -> w.fat_ratio
      [] ty = "FAT_FREE_MASS" -> w.fat_free_mass

Reports(g, ty) == \E i \in 1 .. Len(g.measures) : g.measures[i].type = ty

\* The value a group reports for a type: that of its last measure of the type.
ReportedValue(g, ty) ==
    LET i == CHOOSE k \in 1 .. Len(g.measures) :
                 /\ g.measures[k].type = ty
                 /\ \A m \in (k + 1) .. Len(g.measures) : g.measures[m].type # ty
    IN  Some(g.measures[i].value)

\* Group j is the last group of the response with its timestamp.
LastOfTimestamp(in, j) ==
    \A k \in (j + 1) .. Len(in) : in[k].created # in[j].created

CarriesGroup(w, g) ==
    /\ w.created_at = g.created
    /\ \A ty \in RecordTypes :
          FieldValue(w, ty) = IF Reports(g, ty) THEN ReportedValue(g, ty)
                              ELSE IF ty = "WEIGHT" THEN Some(-1) ELSE None

\* C16 (normalizer grouping): the output of measures_to_weights has exactly
\* one record per distinct timestamp of the input, and the record of a
\* timestamp carries, for every measure type the last group with that
\* timestamp reports, that group's value.
C16_NormalizerGrouping ==
    \A p \in Instances : pc[p] = "normalized" =>
       LET in == measures[p]
           out == weights[p]
           stamps == {in[j].created : j \in 1 .. Len(in)}
       IN  /\ {out[i].created_at : i \in 1 .. Len(out)} = stamps
           /\ Len(out) = Cardinality(stamps)
           /\ \A i \in 1 .. Len(out) : \A j \in 1 .. Len(in) :
                 (in[j].created = out[i].created_at /\ LastOfTimestamp(in, j)) =>
                    \A ty \in RecordTypes :
                       Reports(in[j], ty) =>
                          FieldValue(out[i], ty) = ReportedValue(in[j], ty)

\* Two groups with one timestamp and different measure sets, both reporting
\* WEIGHT with different values, gave one record.
C16_Witness ==
    \E p \in Instances :
       /\ pc[p] = "normalized" /\ Len(measures[p]) = 2 /\ Len(weights[p]) = 1
       /\ measures[p][1].created = measures[p][2].created
       /\ Reports(measures[p][1], "WEIGHT") /\ Reports(measures[p][2], "WEIGHT")
       /\ Reports(measures[p][1], "FAT_MASS_WEIGHT")
       /\ ~Reports(measures[p][2], "FAT_MASS_WEIGHT")
       /\ ReportedValue(measures[p][1], "WEIGHT") # ReportedValue(measures[p][2], "WEIGHT")

\* C17 (normalizer ordering): the output of measures_to_weights is strictly
\* ascending in created_at, whatever the order of the input.
C17_NormalizerOrdering ==
    \A p \in Instances : pc[p] = "normalized" =>
       \A i, j \in 1 .. Len(weights[p]) :
          i < j => weights[p][i].created_at.timestamp < weights[p][j].created_at.timestamp

\* A response whose groups arrive in descending order of timestamp.
C17_Witness ==
    \E p \in Instances :
       /\ pc[p] = "normalized" /\ Len(measures[p]) = 2 /\ Len(weights[p]) = 2
       /\ measures[p][1].created.timestamp > measures[p][2].created.timestamp

HasNoWeight(g) == ~Reports(g, "WEIGHT")
HasNonNegativeWeight(g) ==
    \E i \in 1 .. Len(g.measures) :
       g.measures[i].type = "WEIGHT" /\ g.measures[i].value >= 0

\* C18 as stated (missing-weight flagging): every group without WEIGHT has
\* its flagged record (weight -1, its other measures set) in the output, and
\* a group with a non-negative WEIGHT is never flagged.
C18_FlaggedRecordEmitted ==
    \A p \in Instances : pc[p] = "normalized" =>
       \A j \in 1 .. Len(measures[p]) :
          LET g == measures[p][j]
          IN  /\ HasNoWeight(g) =>
                    \E i \in 1 .. Len(weights[p]) :
                       weights[p][i].weight = -1 /\ CarriesGroup(weights[p][i], g)
              /\ HasNonNegativeWeight(g) => from_measure(g).weight >= 0

\* C18 as amended: from_measure gives a group without WEIGHT the sentinel
\* weight -1 with its other measures set, and never flags a group with a
\* non-negative WEIGHT; the output holds, for every timestamp, the record of
\* the last group with that timestamp (flagged or not), so a flagged record
\* is emitted unless a later group of the response has its timestamp, and
\* the other groups are normalized as usual.
C18_FlaggedUnlessSuperseded ==
    \A p \in Instances : pc[p] = "normalized" =>
       /\ Len(weights[p]) = Cardinality({measures[p][j].created : j \in 1 .. Len(measures[p])})
       /\ \A j \in 1 .. Len(measures[p]) :
             LET g == measures[p][j]
             IN  /\ HasNoWeight(g) =>
                       from_measure(g).weight = -1 /\ CarriesGroup(from_measure(g), g)
                 /\ HasNonNegativeWeight(g) => from_measure(g).weight >= 0
                 /\ LastOfTimestamp(measures[p], j) =>
                       \E i \in 1 .. Len(weights[p]) :
                          /\ weights[p][i] = from_measure(g)
                          /\ CarriesGroup(weights[p][i], g)
                          /\ HasNoWeight(g) => weights[p][i].weight = -1
                          /\ HasNonNegativeWeight(g) => weights[p][i].weight >= 0

\* A response of a HYDRATION-only group and a group with WEIGHT at another
\* timestamp: both records are in the output, the first one flagged.
C18_Witness ==
    \E p \in Instances :
       /\ pc[p] = "normalized" /\ Len(measures[p]) = 2 /\ Len(weights[p]) = 2
       /\ HasNoWeight(measures[p][1]) /\ Reports(measures[p][1], "HYDRATION")
       /\ HasNonNegativeWeight(measures[p][2])
       /\ \E i \in 1 .. 2 : weights[p][i].weight = -1
                            /\ weights[p][i].hydration # None


\* C19 (all-or-nothing batch): the step of a failed insert leaves the weight
\* table exactly as it was, and when the cycle is at its sleep after a failed
\* insert the table still has the checkpoint the cycle read at its start and
\* none of the batch's new rows.
C19_AllOrNothingBatch ==
    /\ [](\A p \in Instances :
             (pc[p] = "mw_sleep" /\ insert_error[p]) =>
                /\ get_last_weight_timestamp(weight) = last_weight_timestamp[p]
                /\ \A i \in 1 .. Len(weights[p]) :
                      InsertData(weights[p])[i] \in weight =>
                         last_weight_timestamp[p] # None
                         /\ weights[p][i].created_at.timestamp
                               <= Get(last_weight_timestamp[p]).timestamp)
    /\ [][ \A p \in Instances :
             (pc[p] = "mw_insert" /\ pc'[p] = "mw_sleep" /\ insert_error'[p]) =>
                weight' = weight
         ]_vars

\* The insert of a two-row batch into an empty table has failed and the
\* table is still empty.
C19_Witness ==
    \E p \in Instances :
       /\ pc[p] = "mw_sleep" /\ insert_error[p]
       /\ Len(weights[p]) = 2 /\ weight = {}

\* C20 (postcondition of startup): at the step at which ensure_credentials
\* returns a credential, the credentials table holds exactly one row, the
\* pickle of that credential; and when get_credentials found no row, no
\* validation call is made and the credential returned is the handshake's,
\* already written.
C20_StartupPostcondition ==
    /\ [](\A p \in Instances :
             (observed[p].rows = 0 /\ pc[p] # "off") =>
                /\ existing_creds[p] = None
                /\ validation[p] = "none"
                /\ creds[p] # None => handshake_invoked[p])
    /\ [][ \A p \in Instances :
             (creds[p] = None /\ creds'[p] # None) =>
                /\ pc'[p] = "mw_start"
                /\ credentials' = << serialize_credentials(Get(creds'[p])) >>
                /\ deseralize_credentials(credentials'[1]) = Get(creds'[p])
                /\ observed[p].rows = 0 => creds'[p] = saving[p]
         ]_vars

\* ensure_credentials has returned the handshake's credential after the
\* stored one failed validation, and the table holds the new one alone.
C20_Witness ==
    \E p \in Instances :
       /\ pc[p] = "mw_start" /\ handshake_invoked[p] /\ validation[p] = "auth_failed"
       /\ creds[p] # None /\ creds[p] # existing_creds[p]
       /\ credentials = << serialize_credentials(Get(creds[p])) >>
       /\ last_weight_timestamp[p] = None /\ rowcount[p] = None /\ ~insert_error[p]

====
